---- MODULE Spec2Model ----
(***************************************************************************)
(* Model of the knowledge-base store of the Voltic bot                     *)
(* (src/bot/sheets_manager.py, class CSVManager): the time- and            *)
(* modification-based cache of get_knowledge_base(), the remote-first      *)
(* load with local fallback, the schema check, the row cleaning of         *)
(* _clean_data() and refresh_cache().                                      *)
(*                                                                         *)
(* Text is a sequence of one-character strings, so that str.strip() is     *)
(* computed and not assumed.  A CSV cell is missing ("nan"), numeric       *)
(* ("num") or text ("str"); pandas.read_csv gives a column the object      *)
(* dtype when at least one of its cells is text and a numeric dtype        *)
(* otherwise.  Time is counted in minutes.                                 *)
(***************************************************************************)
EXTENDS Integers, Sequences, FiniteSets, TLC

\* ---------------------------------------------------------------- bounds
MaxTime == 3
MaxDuration == 2
MaxRows == 2
MaxStrLen == 2

\* ------------------------------------------------------- program constants
DefaultPriority == 5
RequiredColumns == {"Category", "Question", "Answer"}
ColNames == {"Category", "Question", "Answer", "Priority"}

None == [t |-> "none"]
\* None in a field that holds a time
NoTime == -1

\* ------------------------------------------------------------------ text
Chars == {" ", "a"}
Digits == {"2", "7"}

RECURSIVE LStrip(_)
LStrip(s) ==
    IF s = <<>> THEN s
    ELSE IF Head(s) = " " THEN LStrip(Tail(s)) ELSE s

RECURSIVE RStrip(_)
RStrip(s) ==
    IF s = <<>> THEN s
    ELSE IF s[Len(s)] = " " THEN RStrip(SubSeq(s, 1, Len(s) - 1)) ELSE s

\* str.strip()
Strip(s) == RStrip(LStrip(s))

DigitVal(d) == IF d = "2" THEN 2 ELSE 7
DigitOf(n) == IF n = 2 THEN "2" ELSE "7"

\* ------------------------------------------------------------- CSV cells
NaN == [t |-> "nan"]
Num(n) == [t |-> "num", v |-> n]
Str(s) == [t |-> "str", v |-> s]

Strings == UNION {[1..n -> Chars] : n \in 1..MaxStrLen}
TextCells == {Str(s) : s \in Strings}
NumCells == {Num(2), Num(7)}
Cells == {NaN} \cup NumCells \cup TextCells

\* ------------------------------------------------------------ read_csv
\* A raw table is the parsed CSV: its header and its rows of cells.  The
\* cell of a column that the header lacks is NaN and is never looked at.
IsObject(t, c) == \E i \in 1..Len(t.rows) : t.rows[i][c].t = "str"
HasNaN(t, c) == \E i \in 1..Len(t.rows) : t.rows[i][c].t = "nan"

\* In an object column a numeric-looking cell is kept as its text.
CellAsRead(t, c, x) ==
    IF x.t = "num" /\ IsObject(t, c) THEN Str(<<DigitOf(x.v)>>) ELSE x

ReadCsv(t) ==
    [cols |-> t.cols,
     rows |-> [i \in 1..Len(t.rows) |->
                 [c \in ColNames |-> CellAsRead(t, c, t.rows[i][c])]],
     dtype |-> [c \in ColNames |->
                 IF IsObject(t, c) THEN "object"
                 ELSE IF HasNaN(t, c) THEN "float64" ELSE "int64"]]

\* DataFrame.empty: no rows or no columns
IsEmpty(df) == Len(df.rows) = 0 \/ df.cols = {}

\* pd.DataFrame()
EmptyDF == [cols |-> {}, rows |-> <<>>]

\* mutant: only the Question column is required
MissingColumns_QuestionOnly(df) == {"Question"} \ df.cols

MissingColumns(df) == RequiredColumns \ df.cols

\* ----------------------------------------------------------- _clean_data
\* pd.to_numeric(errors='coerce') followed by fillna(5)
ToNumeric(x) ==
    IF x.t = "num" THEN x.v
    ELSE IF x.t = "str" /\ Len(Strip(x.v)) = 1 /\ Strip(x.v)[1] \in Digits
         THEN DigitVal(Strip(x.v)[1])
         ELSE DefaultPriority

\* astype(str) of a cell of a column with the given dtype
AsStr(x, dtype) ==
    IF x.t = "str" THEN x.v
    ELSE IF x.t = "nan" THEN <<"n", "a", "n">>
    ELSE IF dtype = "float64" THEN <<DigitOf(x.v), ".", "0">>
    ELSE <<DigitOf(x.v)>>

\* mutant: the comparison is inverted, the blank rows are the ones kept
NotBlank_Inverted(rows, c) == SelectSeq(rows, LAMBDA r : Strip(r[c].v) = <<>>)

\* the row filter df[df[col].str.strip() != '']
NotBlank(rows, c) == SelectSeq(rows, LAMBDA r : Strip(r[c].v) /= <<>>)

DropNa(rows) ==
    SelectSeq(rows, LAMBDA r : r["Question"].t /= "nan" /\ r["Answer"].t /= "nan")

CleanRow(r, df) ==
    [Category |-> Strip(AsStr(r["Category"], df.dtype["Category"])),
     Question |-> Strip(AsStr(r["Question"], df.dtype["Question"])),
     Answer   |-> Strip(AsStr(r["Answer"], df.dtype["Answer"])),
     Priority |-> IF "Priority" \in df.cols THEN ToNumeric(r["Priority"])
                  ELSE DefaultPriority]

\* The .str accessor raises AttributeError on a column whose dtype is not
\* object, whatever the number of rows left.
CleanData(df) ==
    LET r1 == DropNa(df.rows) IN
    IF df.dtype["Question"] /= "object" THEN [ok |-> FALSE, err |-> "AttributeError"]
    ELSE LET r2 == NotBlank(r1, "Question") IN
    IF df.dtype["Answer"] /= "object" THEN [ok |-> FALSE, err |-> "AttributeError"]
    ELSE LET r3 == NotBlank(r2, "Answer") IN
    [ok |-> TRUE,
     df |-> [cols |-> df.cols \cup {"Priority"},
             rows |-> [i \in 1..Len(r3) |-> CleanRow(r3[i], df)]]]

\* ------------------------------------------------------------ the inputs
A == <<"a">>
Row(cat, q, a, p) == [Category |-> cat, Question |-> q, Answer |-> a, Priority |-> p]

\* the tables the local file and the remote sheet can hold
TGood == [cols |-> ColNames, rows |-> <<Row(Str(A), Str(A), Str(A), Num(2))>>]
TBlank == [cols |-> ColNames,
           rows |-> <<Row(Str(A), Str(<<"a", " ">>), Str(A), Num(7)),
                      Row(Str(A), Str(A), Str(<<" ">>), Num(2))>>]
TNoAnswer == [cols |-> {"Category", "Question"},
              rows |-> <<Row(Str(A), Str(A), NaN, NaN)>>]
THeaderOnly == [cols |-> {"Question"}, rows |-> <<>>]

Tables == {TGood, TBlank, TNoAnswer, THeaderOnly}

\* a file that exists and that pd.read_csv cannot read
Unreadable == [t |-> "unreadable"]
FileContents == Tables \cup {Unreadable}

\* requests.get / raise_for_status / pd.read_csv failures
RemoteErrors == {"ConnectionError", "Timeout", "HTTPError", "ParserError"}
RemoteFailures == {[t |-> "failure", err |-> e] : e \in RemoteErrors}
RemoteResponses == RemoteFailures \cup Tables
NoRemote == [t |-> "unused"]

Absent == [exists |-> FALSE, mtime |-> 0, content |-> Unreadable]

\* the tables _clean_data is checked on
SomeCategory == Str(A)
SomePriority == Num(2)
RawRows == {Row(SomeCategory, q, a, SomePriority) : q \in Cells, a \in Cells}
RawTables == {[cols |-> ColNames, rows |-> rs] :
                 rs \in UNION {[1..n -> RawRows] : n \in 0..MaxRows}}

\* ------------------------------------------------------------- the state
VARIABLES
    google_sheets_csv_url,  \* TRUE when config.google_sheets_csv_url is set
    cache_duration,         \* config.cache_duration, minutes
    now,                    \* datetime.now(), minutes
    file,                   \* the file at csv_file_path
    data_cache,             \* CSVManager.data_cache
    cache_time,             \* CSVManager.cache_time
    last_modified,          \* CSVManager.last_modified
    written,                \* history: which load wrote each cache field
    touched,                \* history: file changed since the cache was populated
    probed,                 \* history: the file's mtime at the latest call
    obs,                    \* history: the call that has just returned
    appended,               \* history: the row appended since the latest call
    raw,                    \* the table handed to the load pipeline
    loaded,                 \* what the load pipeline made of raw
    loop,                   \* the threads of the running bot
    match,                  \* one call of the matcher: its inputs and its result
    sim,                    \* one call of get_similarity_score
    unanswered              \* the unanswered-questions log and the last call that wrote to it

storeVars == <<google_sheets_csv_url, cache_duration, now, file, data_cache,
               cache_time, last_modified, written, touched, probed, obs, appended>>
cleanVars == <<raw, loaded>>
otherVars == <<cleanVars, loop, match, sim, unanswered>>
vars == <<storeVars, otherVars>>

\* the value of a variable that the specification at hand does not use
Idle == [t |-> "idle"]
\* unanswered_questions.csv before anything is written to it
NoLog == [file |-> <<>>, calls |-> 0, call |-> [out |-> "none"]]

NoObs == [op |-> "none"]
Unwritten == [data |-> "none", time |-> "none", mod |-> "none"]

\* -------------------------------------------------------- cache validity
\* mutant: a file as old as the cache already invalidates it
IsCacheValid_Strict(dc, ct, lm) ==
    /\ dc /= None /\ ct /= NoTime
    /\ file.exists
    /\ ~(lm /= NoTime /\ file.mtime >= lm)
    /\ now < ct + cache_duration

\* mutant: the modification time of the file is not looked at
IsCacheValid_NoMtime(dc, ct, lm) ==
    /\ dc /= None /\ ct /= NoTime
    /\ file.exists
    /\ now < ct + cache_duration

\* mutant: the cache is still valid at the minute it expires
IsCacheValid_LateExpiry(dc, ct, lm) ==
    /\ dc /= None /\ ct /= NoTime
    /\ file.exists
    /\ ~(lm /= NoTime /\ file.mtime > lm)
    /\ now <= ct + cache_duration

IsCacheValid(dc, ct, lm) ==
    /\ dc /= None /\ ct /= NoTime
    /\ file.exists
    /\ ~(lm /= NoTime /\ file.mtime > lm)
    /\ now < ct + cache_duration

\* mutant: the remote check also wants the local file to exist
IsCacheValidForGoogleSheets_File(dc, ct) ==
    /\ dc /= None /\ ct /= NoTime
    /\ file.exists
    /\ now < ct + cache_duration

IsCacheValidForGoogleSheets(dc, ct) ==
    /\ dc /= None /\ ct /= NoTime
    /\ now < ct + cache_duration

\* ------------------------------------------------ _load_from_google_sheets
LoadFromGoogleSheets(r) ==
    IF r \in RemoteFailures THEN [ok |-> FALSE, err |-> r.err]
    ELSE LET df == ReadCsv(r) IN
         IF IsEmpty(df) THEN [ok |-> TRUE, df |-> EmptyDF]
         ELSE IF MissingColumns(df) /= {} THEN [ok |-> FALSE, err |-> "ValueError"]
         ELSE CleanData(df)

\* ------------------------------------------------------ get_knowledge_base
\* The outcome of one call: the cache fields it leaves and what the caller
\* sees.  c is the cache before the call, f what the call did so far.
Outcome(dc, ct, lm, wr, out, err, table, source, f) ==
    [dc |-> dc, ct |-> ct, lm |-> lm, wr |-> wr,
     out |-> out, err |-> err, table |-> table, source |-> source,
     fetched |-> f.fetched, resp |-> f.resp, fileRead |-> f.fileRead]

\* lines 90-114: read the file, check it, clean it and cache it
ReadFile(dc, ct, lm, wr, f) ==
    LET g == [f EXCEPT !.fileRead = TRUE] IN
    IF file.content = Unreadable
    THEN Outcome(dc, ct, lm, wr, "raise", "ReadError", None, "local", g)
    ELSE LET df == ReadCsv(file.content) IN
    IF IsEmpty(df)
    THEN Outcome(dc, ct, lm, wr, "return", "", EmptyDF, "emptyfile", g)
    ELSE IF MissingColumns(df) /= {}
    THEN Outcome(dc, ct, lm, wr, "raise", "ValueError", None, "local", g)
    ELSE LET c == CleanData(df) IN
    IF ~c.ok
    THEN Outcome(dc, ct, lm, wr, "raise", c.err, None, "local", g)
    ELSE Outcome(c.df, now, file.mtime,
                 [data |-> "latest", time |-> "latest", mod |-> "latest"],
                 "return", "", c.df, "local", g)

\* mutant: the empty table returned for an absent file is cached
LocalLoad_CachesEmpty(dc, ct, lm, wr, f) ==
    IF ~file.exists
    THEN Outcome(EmptyDF, now, lm,
                 [data |-> "latest", time |-> "latest",
                  mod |-> IF wr.mod = "none" THEN "none" ELSE "earlier"],
                 "return", "", EmptyDF, "nofile", f)
    ELSE ReadFile(dc, ct, lm, wr, f)

\* mutant: no check that the file exists, pd.read_csv raises
LocalLoad_NoExistsCheck(dc, ct, lm, wr, f) ==
    IF ~file.exists
    THEN Outcome(dc, ct, lm, wr, "raise", "FileNotFoundError", None, "local",
                 [f EXCEPT !.fileRead = TRUE])
    ELSE ReadFile(dc, ct, lm, wr, f)

\* lines 82-114: the load of the local file
LocalLoad(dc, ct, lm, wr, f) ==
    IF ~file.exists
    THEN Outcome(dc, ct, lm, wr, "return", "", EmptyDF, "nofile", f)
    ELSE ReadFile(dc, ct, lm, wr, f)

\* lines 77-114: the local-file path
LocalPath(dc, ct, lm, wr, f) ==
    IF IsCacheValid(dc, ct, lm)
    THEN Outcome(dc, ct, lm, wr, "return", "", dc, "cache", f)
    ELSE LocalLoad(dc, ct, lm, wr, f)

\* what a load that leaves last_modified alone does to its stamp
Older(m) == IF m = "none" THEN "none" ELSE "earlier"

\* mutant: a failure of the remote load is raised to the caller
RemotePath_Raise(dc, ct, lm, wr, r, f) ==
    LET g == [f EXCEPT !.fetched = TRUE, !.resp = r]
        l == LoadFromGoogleSheets(r) IN
    IF l.ok
    THEN Outcome(l.df, now, lm,
                 [data |-> "latest", time |-> "latest", mod |-> Older(wr.mod)],
                 "return", "", l.df, "remote", g)
    ELSE Outcome(dc, ct, lm, wr, "raise", l.err, None, "remote", g)

\* lines 66-75: the remote load; a failure falls through to the local path
RemotePath(dc, ct, lm, wr, r, f) ==
    LET g == [f EXCEPT !.fetched = TRUE, !.resp = r]
        l == LoadFromGoogleSheets(r) IN
    IF l.ok
    THEN Outcome(l.df, now, lm,
                 [data |-> "latest", time |-> "latest", mod |-> Older(wr.mod)],
                 "return", "", l.df, "remote", g)
    ELSE LocalPath(dc, ct, lm, wr, g)

NothingDone == [fetched |-> FALSE, resp |-> NoRemote, fileRead |-> FALSE]

GetKB(dc, ct, lm, wr, r) ==
    IF google_sheets_csv_url
    THEN IF IsCacheValidForGoogleSheets(dc, ct)
         THEN Outcome(dc, ct, lm, wr, "return", "", dc, "cache", NothingDone)
         ELSE RemotePath(dc, ct, lm, wr, r, NothingDone)
    ELSE LocalPath(dc, ct, lm, wr, NothingDone)

Inputs == IF google_sheets_csv_url THEN RemoteResponses ELSE {NoRemote}

\* the observation of a call that went from cache (dc, ct, lm) to outcome o
Observe(op, o) ==
    [op |-> op,
     pre |-> [dc |-> data_cache, ct |-> cache_time, lm |-> last_modified],
     untouched |-> ~touched,
     pending |-> appended,
     probed |-> probed,
     out |-> o.out, err |-> o.err, table |-> o.table, source |-> o.source,
     fetched |-> o.fetched, resp |-> o.resp, fileRead |-> o.fileRead,
     wrote |-> o.wr.data = "latest" /\ o.source \in {"remote", "local"}
               /\ o.out = "return"]

Apply(op, o) ==
    /\ data_cache' = o.dc
    /\ cache_time' = o.ct
    /\ last_modified' = o.lm
    /\ written' = o.wr
    /\ touched' = IF o.source \in {"remote", "local"} /\ o.out = "return"
                  THEN FALSE ELSE touched
    /\ probed' = IF file.exists THEN file.mtime ELSE NoTime
    /\ obs' = Observe(op, o)
    /\ appended' = None
    /\ UNCHANGED <<google_sheets_csv_url, cache_duration, now, file, otherVars>>

GetKnowledgeBase ==
    \E r \in Inputs :
        Apply("get", GetKB(data_cache, cache_time, last_modified, written, r))

\* mutant: the cache is not cleared before the load
RefreshCache_NoClear ==
    \E r \in Inputs :
        Apply("refresh", GetKB(data_cache, cache_time, last_modified, written, r))

\* refresh_cache: clear the three fields, then get_knowledge_base()
RefreshCache ==
    \E r \in Inputs :
        Apply("refresh", GetKB(None, NoTime, NoTime, Unwritten, r))

\* ------------------------------------------------------- the environment
Tick ==
    /\ now < MaxTime
    /\ now' = now + 1
    /\ obs' = NoObs
    /\ UNCHANGED <<google_sheets_csv_url, cache_duration, file, data_cache,
                   cache_time, last_modified, written, touched, probed, appended,
                   otherVars>>

\* a write stamps the file with the current time
WriteFile ==
    \E c \in FileContents :
        /\ file' = [exists |-> TRUE, mtime |-> now, content |-> c]
        /\ file' /= file
        /\ touched' = TRUE
        /\ obs' = NoObs
        /\ UNCHANGED <<google_sheets_csv_url, cache_duration, now, data_cache,
                       cache_time, last_modified, written, probed, appended,
                       otherVars>>

DeleteFile ==
    /\ file.exists
    /\ file' = Absent
    /\ touched' = TRUE
    /\ obs' = NoObs
    /\ UNCHANGED <<google_sheets_csv_url, cache_duration, now, data_cache,
                   cache_time, last_modified, written, probed, appended,
                       otherVars>>

Files0 == {Absent} \cup {[exists |-> TRUE, mtime |-> 0, content |-> c] : c \in FileContents}

Init ==
    /\ google_sheets_csv_url \in BOOLEAN
    /\ cache_duration \in 1..MaxDuration
    /\ now = 0
    /\ file \in Files0
    /\ data_cache = None
    /\ cache_time = NoTime
    /\ last_modified = NoTime
    /\ written = Unwritten
    /\ touched = FALSE
    /\ probed = NoTime
    /\ obs = NoObs
    /\ appended = None
    /\ raw = TGood
    /\ loaded = None
    /\ loop = Idle
    /\ match = Idle
    /\ sim = Idle
    /\ unanswered = NoLog

Next == GetKnowledgeBase \/ RefreshCache \/ Tick \/ WriteFile \/ DeleteFile

Spec == Init /\ [][Next]_vars

\* ------------------------------------------- the load pipeline on its own
InitClean ==
    /\ google_sheets_csv_url = TRUE
    /\ cache_duration = MaxDuration
    /\ now = 0
    /\ file = Absent
    /\ data_cache = None
    /\ cache_time = NoTime
    /\ last_modified = NoTime
    /\ written = Unwritten
    /\ touched = FALSE
    /\ probed = NoTime
    /\ obs = NoObs
    /\ appended = None
    /\ raw \in RawTables
    /\ loaded = None
    /\ loop = Idle
    /\ match = Idle
    /\ sim = Idle
    /\ unanswered = NoLog

\* read, check and clean the table raw as a load does
LoadTable ==
    /\ loaded = None
    /\ loaded' = LoadFromGoogleSheets(raw)
    /\ UNCHANGED <<storeVars, raw, loop, match, sim, unanswered>>

NextClean == LoadTable

SpecClean == InitClean /\ [][NextClean]_vars

\* ----------------------------------------- the fallback flow's append
\* _send_no_matches_response hands the question, the generated answer and
\* the category "AI_Generated" to add_question_answer.
NewRow(q, a) == Row(Str(<<"a", "i">>), Str(q), Str(a), NaN)

\* add_question_answer, when it succeeds: the row, a non-blank question
\* with its generated answer, is added at the end of the local file, which
\* holds a knowledge base, and the cache is invalidated.
AddQuestionAnswer ==
    \E q \in {x \in Strings : Strip(x) /= <<>>}, a \in {A} :
        /\ file.exists /\ file.content /= Unreadable
        /\ RequiredColumns \subseteq file.content.cols
        /\ Len(file.content.rows) < MaxRows
        /\ file' = [file EXCEPT !.mtime = now,
                        !.content.rows = Append(file.content.rows, NewRow(q, a))]
        /\ data_cache' = None
        /\ cache_time' = NoTime
        /\ last_modified' = NoTime
        /\ written' = Unwritten
        /\ touched' = TRUE
        /\ appended' = NewRow(q, a)
        /\ obs' = NoObs
        /\ UNCHANGED <<google_sheets_csv_url, cache_duration, now, probed,
                       otherVars>>

NextAppend == GetKnowledgeBase \/ Tick \/ AddQuestionAnswer

SpecAppend == Init /\ [][NextAppend]_vars

\* ------------------------------------------- the running bot's threads
\* main() starts the keep-alive HTTP server in a daemon thread and runs the
\* bot's handlers as coroutines of one asyncio event loop.  A handler is a
\* sequence of steps: "await" is a suspension point, "enter" and "leave"
\* bracket one synchronous call into the store, and "w_data", "w_time"
\* and "w_mod" are its assignments to data_cache, cache_time and
\* last_modified.
MaxUpdates == 3
ServerThread == 0
NoTask == [id |-> -1, kind |-> "none", todo |-> <<>>]

\* get_knowledge_base: a cache hit, an empty result or a failure writes
\* nothing; a remote load writes two fields, a local load all three
GetLocal == <<"enter", "w_data", "w_time", "w_mod", "leave">>
GetCalls == {<<"enter", "leave">>, <<"enter", "w_data", "w_time", "leave">>, GetLocal}

\* refresh_cache clears the three fields and calls get_knowledge_base
RefreshCalls == {<<"enter", "w_data", "w_time", "w_mod">> \o Tail(g) : g \in GetCalls}

\* add_question_answer appends to the file and clears the three fields
AppendCall == <<"enter", "w_data", "w_time", "w_mod", "leave">>

HandlerKinds == {"question", "categories", "stats", "refresh", "button"}

\* the step sequences a handler of the given kind can run
Programs(kind) ==
    CASE kind = "question" ->
            {g \o <<"await">> : g \in GetCalls}
            \cup {g \o <<"await", "await">> : g \in GetCalls}
            \cup {g \o <<"await", "await">> \o AppendCall \o <<"await">> : g \in GetCalls}
      [] kind = "categories" -> {g \o <<"await">> : g \in GetCalls}
      [] kind = "stats" -> {g \o <<"await">> : g \in GetCalls}
      [] kind = "refresh" -> {<<"await">> \o r \o <<"await">> : r \in RefreshCalls}
      [] kind = "button" ->
            {<<"await">>} \cup {<<"await">> \o g \o <<"await">> : g \in GetCalls}

\* mutant: the health check loads the knowledge base in the server thread
ServerProgram_HealthLoads(path) ==
    IF path = "/health" THEN GetLocal \o <<"send", "write">> ELSE <<"send", "write">>

\* do_GET: every path sends a status line and writes a JSON body
ServerProgram(path) == <<"send", "write">>

\* the effect of one step of thread or handler invocation id
Do(l, id, step) ==
    CASE step = "enter" -> [l EXCEPT !.inflight = @ \cup {id}]
      [] step = "leave" -> [l EXCEPT !.inflight = @ \ {id}]
      [] step \in {"w_data", "w_time", "w_mod"} ->
            [l EXCEPT !.writer[step] = id,
                      !.interleaved = @ \/ (l.inflight \ {id} /= {})]
      [] OTHER -> l

StoreAtRest ==
    /\ google_sheets_csv_url = FALSE
    /\ cache_duration = 1
    /\ now = 0
    /\ file = Absent
    /\ data_cache = None
    /\ cache_time = NoTime
    /\ last_modified = NoTime
    /\ written = Unwritten
    /\ touched = FALSE
    /\ probed = NoTime
    /\ obs = NoObs
    /\ appended = None
    /\ raw = TGood
    /\ loaded = None
    /\ unanswered = NoLog

InitLoop ==
    /\ StoreAtRest /\ match = Idle /\ sim = Idle
    /\ loop = [updates |-> 0, handler |-> NoTask, server |-> <<>>, inflight |-> {},
               writer |-> [w_data |-> -1, w_time |-> -1, w_mod |-> -1],
               interleaved |-> FALSE]

\* the application takes the next update when the handler of the previous
\* one has returned (Application.builder() leaves concurrent_updates off)
Dispatch ==
    \E kind \in HandlerKinds : \E prog \in Programs(kind) :
        /\ loop.handler = NoTask
        /\ loop.updates < MaxUpdates
        /\ loop' = [loop EXCEPT !.updates = @ + 1,
                        !.handler = [id |-> loop.updates + 1, kind |-> kind,
                                     todo |-> prog]]
        /\ UNCHANGED <<storeVars, cleanVars, unanswered, match, sim>>

\* the event loop runs the next step of the current handler
HandlerStep ==
    /\ loop.handler /= NoTask
    /\ LET h == loop.handler
           l == Do(loop, h.id, Head(h.todo))
       IN  loop' = [l EXCEPT !.handler =
                       IF Tail(h.todo) = <<>> THEN NoTask
                       ELSE [h EXCEPT !.todo = Tail(h.todo)]]
    /\ UNCHANGED <<storeVars, cleanVars, unanswered, match, sim>>

\* the keep-alive server takes a request
Request ==
    \E path \in {"/", "/health", "/other"} :
        /\ loop.server = <<>>
        /\ loop' = [loop EXCEPT !.server = ServerProgram(path)]
        /\ UNCHANGED <<storeVars, cleanVars, unanswered, match, sim>>

\* the server thread runs the next step of do_GET
ServerStep ==
    /\ loop.server /= <<>>
    /\ loop' = [Do(loop, ServerThread, Head(loop.server)) EXCEPT
                    !.server = Tail(loop.server)]
    /\ UNCHANGED <<storeVars, cleanVars, unanswered, match, sim>>

NextLoop == Dispatch \/ HandlerStep \/ Request \/ ServerStep

SpecLoop == InitLoop /\ [][NextLoop]_vars

\* ------------------------------------------------- the matcher's text
\* A text is a sequence of characters.  The characters stand for the
\* classes the regular expressions tell apart: upper and lower case
\* letters, the underscore (a word character), punctuation, the space and
\* another whitespace character.
Letters == {"a", "b", "c"}
IsSpace(c) == c \in {" ", "\t"}
IsWord(c) == c \in Letters \cup {"A", "_"}
Lower(c) == IF c = "A" THEN "a" ELSE c
Code(c) ==
    CASE c = "\t" -> 9 [] c = " " -> 32 [] c = "?" -> 63 [] c = "A" -> 65
      [] c = "_" -> 95 [] c = "a" -> 97 [] c = "b" -> 98 [] c = "c" -> 99

\* str.lower()
LowerText(s) == [i \in 1..Len(s) |-> Lower(s[i])]

RECURSIVE LStripWs(_)
LStripWs(s) == IF s /= <<>> /\ IsSpace(Head(s)) THEN LStripWs(Tail(s)) ELSE s
RECURSIVE RStripWs(_)
RStripWs(s) ==
    IF s /= <<>> /\ IsSpace(s[Len(s)]) THEN RStripWs(SubSeq(s, 1, Len(s) - 1)) ELSE s
\* str.strip()
StripWs(s) == RStripWs(LStripWs(s))

\* re.sub(r'\s+', ' ', s)
RECURSIVE CollapseWs(_)
CollapseWs(s) ==
    IF s = <<>> THEN <<>>
    ELSE IF IsSpace(Head(s)) THEN <<" ">> \o CollapseWs(LStripWs(s))
    ELSE <<Head(s)>> \o CollapseWs(Tail(s))

\* re.sub(r'[^\w\s]', ' ', s)
PunctToSpace(s) ==
    [i \in 1..Len(s) |-> IF IsWord(s[i]) \/ IsSpace(s[i]) THEN s[i] ELSE " "]

\* mutant: the text is not collapsed and stripped after the punctuation
\* has been replaced
CleanText_NoFinalStrip(q) ==
    PunctToSpace(CollapseWs(StripWs(LowerText(q))))

\* _clean_question on a non-empty string
CleanText(q) ==
    StripWs(CollapseWs(PunctToSpace(CollapseWs(StripWs(LowerText(q))))))

\* fuzzywuzzy's full_process: every non-word character becomes a space,
\* then lower case, then strip
FullProcess(s) ==
    StripWs(LowerText([i \in 1..Len(s) |-> IF IsWord(s[i]) THEN s[i] ELSE " "]))

\* str.split(): the maximal runs of non-whitespace characters
RECURSIVE Split(_)
Split(s) ==
    LET t == LStripWs(s)
        n == IF \E i \in 1..Len(t) : IsSpace(t[i])
             THEN (CHOOSE i \in 1..Len(t) :
                     IsSpace(t[i]) /\ \A j \in 1..(i - 1) : ~IsSpace(t[j])) - 1
             ELSE Len(t)
    IN  IF t = <<>> THEN <<>>
        ELSE <<SubSeq(t, 1, n)>> \o Split(SubSeq(t, n + 1, Len(t)))

\* the order of Python strings: by code point, a proper prefix first
RECURSIVE TextLess(_, _)
TextLess(s, t) ==
    IF t = <<>> THEN FALSE
    ELSE IF s = <<>> THEN TRUE
    ELSE IF Head(s) = Head(t) THEN TextLess(Tail(s), Tail(t))
    ELSE Code(Head(s)) < Code(Head(t))

\* sorted(tokens)
RECURSIVE Sorted(_)
Sorted(ts) ==
    IF ts = <<>> THEN <<>>
    ELSE LET i == CHOOSE i \in 1..Len(ts) :
                    \A j \in 1..Len(ts) : ~TextLess(ts[j], ts[i])
         IN  <<ts[i]>> \o Sorted(SubSeq(ts, 1, i - 1) \o SubSeq(ts, i + 1, Len(ts)))

\* " ".join(tokens)
RECURSIVE Join(_)
Join(ts) ==
    IF ts = <<>> THEN <<>>
    ELSE IF Len(ts) = 1 THEN ts[1]
    ELSE ts[1] \o <<" ">> \o Join(Tail(ts))

\* fuzz._process_and_sort
ProcessAndSort(s, full_process) ==
    StripWs(Join(Sorted(Split(IF full_process THEN FullProcess(s) ELSE s))))

\* ------------------------------------------------- the similarity ratio
\* fuzzywuzzy takes SequenceMatcher from python-Levenshtein when that
\* package is installed and from difflib otherwise.
Backends == {"Levenshtein", "difflib"}

\* the length of a longest common subsequence: python-Levenshtein's ratio
\* counts 2 * LCS matched characters (a substitution costs 2)
RECURSIVE LCS(_, _)
LCS(s, t) ==
    IF s = <<>> \/ t = <<>> THEN 0
    ELSE IF Head(s) = Head(t) THEN 1 + LCS(Tail(s), Tail(t))
    ELSE LET x == LCS(Tail(s), t)
             y == LCS(s, Tail(t))
         IN  IF x >= y THEN x ELSE y

\* the length of the common prefix of s[i..] and t[j..]
RECURSIVE CommonAt(_, _, _, _)
CommonAt(s, t, i, j) ==
    IF i > Len(s) \/ j > Len(t) \/ s[i] /= t[j] THEN 0
    ELSE 1 + CommonAt(s, t, i + 1, j + 1)

\* difflib's find_longest_match: a longest common block, of those the
\* one starting earliest in s, of those the one starting earliest in t
LongestMatch(s, t) ==
    LET P == (1..Len(s)) \X (1..Len(t))
        Better(p, q) ==
            \/ CommonAt(s, t, p[1], p[2]) > CommonAt(s, t, q[1], q[2])
            \/ /\ CommonAt(s, t, p[1], p[2]) = CommonAt(s, t, q[1], q[2])
               /\ (p[1] < q[1] \/ (p[1] = q[1] /\ p[2] < q[2]))
        b == CHOOSE p \in P : \A q \in P \ {p} : Better(p, q)
    IN  [i |-> b[1], j |-> b[2], k |-> CommonAt(s, t, b[1], b[2])]

\* difflib's get_matching_blocks, summed: the longest block, then the
\* same to its left and to its right
RECURSIVE Matched(_, _)
Matched(s, t) ==
    IF s = <<>> \/ t = <<>> THEN 0
    ELSE LET m == LongestMatch(s, t)
         IN  IF m.k = 0 THEN 0
             ELSE m.k + Matched(SubSeq(s, 1, m.i - 1), SubSeq(t, 1, m.j - 1))
                      + Matched(SubSeq(s, m.i + m.k, Len(s)),
                                SubSeq(t, m.j + m.k, Len(t)))

\* utils.intr(100 * m.ratio()) with ratio = 2 * matches / total: Python's
\* round goes to the nearest integer, a half to the even one
Intr(matches, total) ==
    LET q == (200 * matches) \div total
        r == (200 * matches) % total
    IN  IF 2 * r < total THEN q
        ELSE IF 2 * r > total THEN q + 1
        ELSE IF q % 2 = 0 THEN q ELSE q + 1

\* fuzz.ratio with its decorators: equal strings score 100, an empty
\* string scores 0
Ratio(s1, s2, backend) ==
    IF s1 = s2 THEN 100
    ELSE IF s1 = <<>> \/ s2 = <<>> THEN 0
    ELSE Intr(IF backend = "difflib" THEN Matched(s1, s2) ELSE LCS(s1, s2),
              Len(s1) + Len(s2))

\* fuzz.token_sort_ratio
TokenSortRatio(s1, s2, full_process, backend) ==
    Ratio(ProcessAndSort(s1, full_process), ProcessAndSort(s2, full_process), backend)

\* ------------------------------------------------- the matcher's calls
\* An argument is a string, None or some other object; a call returns a
\* value or raises.
PyStr(s) == [t |-> "str", v |-> s]
NotAString == [t |-> "int"]
Return(v) == [out |-> "return", v |-> v]
Raise(e) == [out |-> "raise", err |-> e]

\* _clean_question: a falsy argument gives "", lower() of an object that
\* is not a string raises
CleanQuestion(question) ==
    IF question = None THEN Return(<<>>)
    ELSE IF question.t /= "str" THEN Raise("AttributeError")
    ELSE Return(CleanText(question.v))

\* the body of get_similarity_score
SimilarityScore(question1, question2, backend) ==
    LET clean1 == CleanQuestion(question1)
        clean2 == CleanQuestion(question2)
    IN  IF clean1.out = "raise" THEN clean1
        ELSE IF clean2.out = "raise" THEN clean2
        ELSE IF clean1.v = <<>> \/ clean2.v = <<>> THEN Return(0)
        ELSE Return(TokenSortRatio(clean1.v, clean2.v, TRUE, backend))

\* get_similarity_score: any exception is logged and gives 0
GetSimilarityScore(question1, question2, backend) ==
    LET r == SimilarityScore(question1, question2, backend)
    IN  IF r.out = "raise" THEN Return(0) ELSE r

\* ----------------------------------------------------------- find_matches
\* process.extract scores every choice: the query goes through
\* full_process twice, the choice once, and token_sort_ratio compares
\* them without processing them again
Scored(query, choices, backend) ==
    [i \in 1..Len(choices) |->
        [text |-> choices[i],
         score |-> TokenSortRatio(FullProcess(FullProcess(query)),
                                  FullProcess(choices[i]), FALSE, backend)]]

Without(seq, i) == SubSeq(seq, 1, i - 1) \o SubSeq(seq, i + 1, Len(seq))
Take(seq, n) == SubSeq(seq, 1, IF n < Len(seq) THEN n ELSE Len(seq))

\* the order of heapq.nlargest: by score, the highest first, equal scores
\* in the order of the choices
RECURSIVE ByScore(_)
ByScore(ms) ==
    IF ms = <<>> THEN <<>>
    ELSE LET i == CHOOSE i \in 1..Len(ms) :
                    /\ \A j \in 1..Len(ms) : ms[j].score <= ms[i].score
                    /\ \A j \in 1..(i - 1) : ms[j].score < ms[i].score
         IN  <<ms[i]>> \o ByScore(Without(ms, i))

\* process.extract(query, choices, scorer=fuzz.token_sort_ratio, limit=limit)
Extract(query, choices, limit, backend) ==
    Take(ByScore(Scored(query, choices, backend)), limit)

\* mutant: every candidate is kept, whatever its score
Accepted_All(ms, threshold) == ms

\* if score >= self.similarity_threshold
Accepted(ms, threshold) == SelectSeq(ms, LAMBDA m : m.score >= threshold)

\* mutant: the last row with the matched text is taken
LookupRow_Last(kb, text) ==
    kb.rows[CHOOSE i \in 1..Len(kb.rows) :
                /\ kb.rows[i].Question = text
                /\ \A j \in (i + 1)..Len(kb.rows) : kb.rows[j].Question /= text]

\* knowledge_base[knowledge_base['Question'] == match_text].iloc[0]
LookupRow(kb, text) ==
    kb.rows[CHOOSE i \in 1..Len(kb.rows) :
                /\ kb.rows[i].Question = text
                /\ \A j \in 1..(i - 1) : kb.rows[j].Question /= text]

\* the result built from the row of a candidate
Result(kb, m) ==
    LET row == LookupRow(kb, m.text) IN
    [question |-> row.Question,
     answer |-> row.Answer,
     category |-> IF "Category" \in kb.cols THEN row.Category ELSE <<"G">>,
     priority |-> IF "Priority" \in kb.cols THEN row.Priority ELSE DefaultPriority,
     score |-> m.score,
     last_updated |-> None]

\* mutant: the results are sorted by score only
RECURSIVE Ranked_ByScoreOnly(_)
Ranked_ByScoreOnly(rs) ==
    IF rs = <<>> THEN <<>>
    ELSE LET i == CHOOSE i \in 1..Len(rs) :
                    /\ \A j \in 1..Len(rs) : rs[j].score <= rs[i].score
                    /\ \A j \in 1..(i - 1) : rs[j].score < rs[i].score
         IN  <<rs[i]>> \o Ranked_ByScoreOnly(Without(rs, i))

\* results.sort(key=lambda x: (-x['score'], x['priority'])), a stable sort
RECURSIVE Ranked(_)
Ranked(rs) ==
    IF rs = <<>> THEN <<>>
    ELSE LET Before(x, y) ==
                 \/ x.score > y.score
                 \/ x.score = y.score /\ x.priority < y.priority
             i == CHOOSE i \in 1..Len(rs) :
                    /\ \A j \in 1..Len(rs) : ~Before(rs[j], rs[i])
                    /\ \A j \in 1..(i - 1) : Before(rs[i], rs[j])
         IN  <<rs[i]>> \o Ranked(Without(rs, i))

\* mutant: a query that is empty after cleaning is scored like any other
FindMatchesBody_NoEmptyCheck(user_question, kb, max_results, threshold, backend) ==
    IF kb = None THEN Raise("AttributeError")
    ELSE IF IsEmpty(kb) THEN Return(<<>>)
    ELSE LET cleaned == CleanQuestion(user_question) IN
    IF cleaned.out = "raise" THEN cleaned
    ELSE IF "Question" \notin kb.cols THEN Raise("KeyError")
    ELSE LET questions == [i \in 1..Len(kb.rows) |-> kb.rows[i].Question]
             matches == Accepted(Extract(cleaned.v, questions, max_results * 2, backend),
                                 threshold)
         IN  IF matches /= <<>> /\ "Answer" \notin kb.cols THEN Raise("KeyError")
             ELSE Return(Take(Ranked([i \in 1..Len(matches) |-> Result(kb, matches[i])]),
                              max_results))

\* the body of find_matches, inside its try
FindMatchesBody(user_question, kb, max_results, threshold, backend) ==
    IF kb = None THEN Raise("AttributeError")
    ELSE IF IsEmpty(kb) THEN Return(<<>>)
    ELSE LET cleaned == CleanQuestion(user_question) IN
    IF cleaned.out = "raise" THEN cleaned
    ELSE IF cleaned.v = <<>> THEN Return(<<>>)
    ELSE IF "Question" \notin kb.cols THEN Raise("KeyError")
    ELSE LET questions == [i \in 1..Len(kb.rows) |-> kb.rows[i].Question]
             matches == Accepted(Extract(cleaned.v, questions, max_results * 2, backend),
                                 threshold)
         IN  IF matches /= <<>> /\ "Answer" \notin kb.cols THEN Raise("KeyError")
             ELSE Return(Take(Ranked([i \in 1..Len(matches) |-> Result(kb, matches[i])]),
                              max_results))

\* mutant: find_matches without its try/except
FindMatches_NoTry(user_question, kb, max_results, threshold, backend) ==
    FindMatchesBody(user_question, kb, max_results, threshold, backend)

\* find_matches: any exception is logged and gives []
FindMatches(user_question, kb, max_results, threshold, backend) ==
    LET r == FindMatchesBody(user_question, kb, max_results, threshold, backend)
    IN  IF r.out = "raise" THEN Return(<<>>) ELSE r

\* get_best_match, which has no try of its own
GetBestMatch(user_question, kb, max_results, threshold, backend) ==
    LET matches == FindMatches(user_question, kb, max_results, threshold, backend)
    IN  IF matches.out = "raise" THEN matches
        ELSE IF matches.v /= <<>> THEN Return(matches.v[1])
        ELSE Return(None)

\* the body of search_by_category, inside its try
SearchByCategoryBody(user_question, kb, category, max_results, threshold, backend) ==
    IF kb = None THEN Raise("AttributeError")
    ELSE IF IsEmpty(kb) THEN Return(<<>>)
    ELSE IF "Category" \notin kb.cols THEN Raise("KeyError")
    ELSE IF category = None \/ category.t /= "str" THEN Raise("AttributeError")
    ELSE LET category_df ==
                 [kb EXCEPT !.rows = SelectSeq(kb.rows, LAMBDA r :
                     LowerText(r.Category) = LowerText(category.v))]
         IN  IF IsEmpty(category_df) THEN Return(<<>>)
             ELSE FindMatches(user_question, category_df, max_results, threshold, backend)

\* search_by_category: any exception is logged and gives []
SearchByCategory(user_question, kb, category, max_results, threshold, backend) ==
    LET r == SearchByCategoryBody(user_question, kb, category, max_results,
                                  threshold, backend)
    IN  IF r.out = "raise" THEN Return(<<>>) ELSE r

\* --------------------------------------- queries against cleaned tables
MaxKB == 3
MaxResults == {1, 2}
Thresholds == {50, 60}
QuestionTexts == {<<"a", " ", "b">>, <<"b", " ", "a">>, <<"A", " ", "b">>, <<"a">>}
Priorities == {2, 7}
QueryTexts == {<<"b", " ", " ", "A">>, <<"a", " ", "c", "?">>, <<"a">>}

\* the rows are told apart by their answers; the categories alternate
AnswerAt(i) == [k \in 1..i |-> "a"]
CategoryAt(i) == IF i % 2 = 1 THEN <<"A">> ELSE <<"b">>
KnowledgeBases ==
    {[cols |-> ColNames,
      rows |-> [i \in 1..Len(f) |-> Row(CategoryAt(i), f[i][1], AnswerAt(i), f[i][2])]] :
        f \in UNION {[1..n -> QuestionTexts \X Priorities] : n \in 0..MaxKB}}

NotCalled == [out |-> "none"]

InitMatch ==
    /\ StoreAtRest /\ loop = Idle /\ sim = Idle
    /\ match \in {[user_question |-> PyStr(q), kb |-> kb, other |-> None,
                    max_results |-> n,
                    similarity_threshold |-> t, backend |-> k,
                    call |-> "none", out |-> NotCalled] :
                       q \in QueryTexts, kb \in KnowledgeBases, n \in MaxResults,
                       t \in Thresholds, k \in Backends}

CallFindMatches ==
    /\ match.call = "none"
    /\ match' = [match EXCEPT !.call = "find_matches",
                     !.out = FindMatches(match.user_question, match.kb, match.max_results,
                                         match.similarity_threshold, match.backend)]
    /\ UNCHANGED <<storeVars, cleanVars, unanswered, loop, sim>>

CallGetBestMatch ==
    /\ match.call = "none"
    /\ match' = [match EXCEPT !.call = "get_best_match",
                     !.out = GetBestMatch(match.user_question, match.kb, match.max_results,
                                          match.similarity_threshold, match.backend)]
    /\ UNCHANGED <<storeVars, cleanVars, unanswered, loop, sim>>

NextMatch == CallFindMatches \/ CallGetBestMatch

SpecMatch == InitMatch /\ [][NextMatch]_vars

\* ------------------------------------- calls with arguments of any kind
\* tables with any of the columns missing, with and without rows, and an
\* object that is not a table
AnyTables ==
    {None} \cup
    {[cols |-> c, rows |-> rs] :
        c \in SUBSET ColNames,
        rs \in {<<>>, <<Row(<<"A">>, <<"?">>, AnswerAt(1), 2),
                        Row(<<"b">>, <<"a", " ", "b">>, AnswerAt(2), 7)>>}}
AnyQueries ==
    {None, NotAString}
    \cup {PyStr(q) : q \in QueryTexts \cup {<<>>, <<" ", "\t">>, <<"?">>}}
OtherArguments == {None, NotAString, PyStr(<<"a">>), PyStr(<<"a", " ", "b">>)}

InitRobust ==
    /\ StoreAtRest /\ loop = Idle /\ sim = Idle
    /\ match \in {[user_question |-> q, kb |-> kb, other |-> x,
                    max_results |-> n,
                    similarity_threshold |-> t, backend |-> k,
                    call |-> "none", out |-> NotCalled] :
                       q \in AnyQueries, kb \in AnyTables, x \in OtherArguments,
                       n \in MaxResults, t \in Thresholds, k \in Backends}

\* search_by_category(user_question, knowledge_base, category)
CallSearchByCategory ==
    /\ match.call = "none"
    /\ match' = [match EXCEPT !.call = "search_by_category",
                     !.out = SearchByCategory(match.user_question, match.kb, match.other,
                                              match.max_results,
                                              match.similarity_threshold, match.backend)]
    /\ UNCHANGED <<storeVars, cleanVars, unanswered, loop, sim>>

\* get_similarity_score(question1, question2)
CallGetSimilarityScore ==
    /\ match.call = "none"
    /\ match' = [match EXCEPT !.call = "get_similarity_score",
                     !.out = GetSimilarityScore(match.user_question, match.other,
                                                match.backend)]
    /\ UNCHANGED <<storeVars, cleanVars, unanswered, loop, sim>>

NextRobust ==
    CallFindMatches \/ CallGetBestMatch \/ CallSearchByCategory \/ CallGetSimilarityScore

SpecRobust == InitRobust /\ [][NextRobust]_vars

\* ----------------------------------------- normalization, applied twice
MaxNormLen == 3
NormTexts == UNION {[1..n -> {"A", "a", " ", "\t", "?", "_"}] : n \in 0..MaxNormLen}

InitNorm ==
    /\ StoreAtRest /\ loop = Idle /\ match = Idle
    /\ sim \in {[q |-> q, calls |-> 0, once |-> <<>>, twice |-> <<>>] : q \in NormTexts}

\* _clean_question(q)
Normalize ==
    /\ sim.calls = 0
    /\ sim' = [sim EXCEPT !.calls = 1, !.once = CleanQuestion(PyStr(sim.q)).v]
    /\ UNCHANGED <<storeVars, cleanVars, unanswered, loop, match>>

\* _clean_question of the result
Renormalize ==
    /\ sim.calls = 1
    /\ sim' = [sim EXCEPT !.calls = 2, !.twice = CleanQuestion(PyStr(sim.once)).v]
    /\ UNCHANGED <<storeVars, cleanVars, unanswered, loop, match>>

NextNorm == Normalize \/ Renormalize

SpecNorm == InitNorm /\ [][NextNorm]_vars

\* ------------------------------------- the similarity of two questions
MaxSimLen == 3
SimTexts == UNION {[1..n -> Letters \cup {" "}] : n \in 0..MaxSimLen}

InitSim ==
    /\ StoreAtRest /\ loop = Idle /\ match = Idle
    /\ sim \in {[a |-> a, b |-> b, backend |-> k, calls |-> 0, ab |-> 0, ba |-> 0] :
                    a \in SimTexts, b \in SimTexts, k \in Backends}

\* get_similarity_score(a, b)
ScoreForward ==
    /\ sim.calls = 0
    /\ sim' = [sim EXCEPT !.calls = 1,
                   !.ab = GetSimilarityScore(PyStr(sim.a), PyStr(sim.b), sim.backend).v]
    /\ UNCHANGED <<storeVars, cleanVars, unanswered, loop, match>>

\* get_similarity_score(b, a)
ScoreBackward ==
    /\ sim.calls = 1
    /\ sim' = [sim EXCEPT !.calls = 2,
                   !.ba = GetSimilarityScore(PyStr(sim.b), PyStr(sim.a), sim.backend).v]
    /\ UNCHANGED <<storeVars, cleanVars, unanswered, loop, match>>

NextSim == ScoreForward \/ ScoreBackward

SpecSim == InitSim /\ [][NextSim]_vars

\* --------------------------------------- the unanswered-questions log
MaxLogLen == 5
MaxLog == 2
\* the questions asked: words separated by spaces, and by a tab
LogQuestions ==
    UNION {[1..n -> {"a", " "}] : n \in 0..MaxLogLen}
    \cup {<<"a", "\t", "a", " ">>, <<"a", " ", "a", "\t", "a">>}

\* mutant: two words are enough for a question to be logged
TooShort_TwoWords(user_question) == Len(Split(user_question)) < 2

\* len(user_question.split()) < 3
TooShort(user_question) == Len(Split(user_question)) < 3

\* the line written: the time, the user and the question as it was asked
LogRecord(user_question, username) ==
    [timestamp |-> now,
     username |-> IF username = None \/ username.v = <<>> THEN <<"U">> ELSE username.v,
     question |-> user_question,
     whole |-> TRUE]

\* open(..., "a") and f.write(...): the line is added, or the open or the
\* write fails with nothing written, or the write fails with a part of the
\* line in the file
WriteLine(f, record, io) ==
    CASE io = "written" -> [out |-> "return", file |-> Append(f, record)]
      [] io = "fails" -> [out |-> "raise", file |-> f]
      [] io = "write torn" ->
            [out |-> "raise", file |-> Append(f, [record EXCEPT !.whole = FALSE])]

\* log_unanswered_question: a question of fewer than three words is not
\* logged; an exception of the write is logged and not raised
LogUnansweredQuestion ==
    \E q \in LogQuestions, username \in {None, PyStr(<<"a">>)},
       io \in {"written", "fails", "write torn"} :
        /\ unanswered.calls < MaxLog
        /\ LET w == WriteLine(unanswered.file, LogRecord(q, username), io)
           IN  unanswered' =
                   IF TooShort(q)
                   THEN [file |-> unanswered.file, calls |-> unanswered.calls + 1,
                         call |-> [out |-> "return", caught |-> FALSE, question |-> q,
                                   io |-> "none", before |-> unanswered.file]]
                   ELSE [file |-> w.file, calls |-> unanswered.calls + 1,
                         call |-> [out |-> IF w.out = "raise" THEN "return" ELSE w.out,
                                   caught |-> w.out = "raise", question |-> q,
                                   io |-> io, before |-> unanswered.file]]
        /\ UNCHANGED <<storeVars, cleanVars, loop, match, sim>>

InitLog == StoreAtRest /\ loop = Idle /\ match = Idle /\ sim = Idle

NextLog == LogUnansweredQuestion

SpecLog == InitLog /\ [][NextLog]_vars

\* ------------------------------------------------------------ the claims
Called == obs.op /= "none"
\* the call found a cached table younger than cache_duration
InWindow == obs.pre.dc /= None /\ now < obs.pre.ct + cache_duration
RemoteFailed == obs.fetched /\ ~LoadFromGoogleSheets(obs.resp).ok
\* the call reached the local-file path
OnLocalPath == ~google_sheets_csv_url \/ RemoteFailed
\* the cache that get_knowledge_base() found when it was entered
Entry == IF obs.op = "refresh" THEN [dc |-> None, ct |-> NoTime, lm |-> NoTime]
         ELSE obs.pre
CacheAbsent == data_cache = None /\ cache_time = NoTime /\ last_modified = NoTime
\* the file's mtime is later than it was at the previous call
MtimeAdvanced == file.exists /\ obs.probed /= NoTime /\ file.mtime > obs.probed
ReturnedCache ==
    /\ obs.out = "return" /\ obs.source = "cache" /\ obs.table = obs.pre.dc
    /\ ~obs.fetched /\ ~obs.fileRead

\* C1: a get_knowledge_base() call made fewer than cache_duration minutes
\* after the load that populated the cache, the file not having changed
\* since, returns the cached table and reads nothing.
C1_CacheHit ==
    (Called /\ obs.op = "get" /\ InWindow /\ obs.untouched) => ReturnedCache

C1_Witness ==
    /\ Called /\ obs.op = "get" /\ InWindow /\ obs.untouched
    /\ ~google_sheets_csv_url /\ now > obs.pre.ct /\ ReturnedCache

\* C2 as stated: whatever the configuration, a call inside the cache window
\* that finds the file's mtime advanced since the previous call reloads.
C2_Original ==
    (Called /\ obs.op = "get" /\ InWindow /\ MtimeAdvanced)
        => obs.source /= "cache"

\* C2, amended: with no remote URL configured, a call inside the cache
\* window that finds the file's mtime advanced since the previous call
\* reads the file again and does not return the cached table.
C2_LocalReload ==
    (Called /\ obs.op = "get" /\ InWindow /\ MtimeAdvanced
        /\ ~google_sheets_csv_url)
        => (obs.source /= "cache" /\ obs.fileRead)

C2_Witness ==
    /\ Called /\ obs.op = "get" /\ InWindow /\ MtimeAdvanced
    /\ ~google_sheets_csv_url
    /\ obs.fileRead /\ obs.out = "return" /\ obs.table /= obs.pre.dc

\* C3: a call made cache_duration minutes or more after the cache was
\* populated never returns the cached table; it attempts a reload, from
\* the remote source when a URL is configured and from the file otherwise.
C3_NoStaleCache ==
    (Called /\ obs.op = "get" /\ obs.pre.dc /= None
        /\ now >= obs.pre.ct + cache_duration)
        => /\ obs.source /= "cache"
           /\ google_sheets_csv_url => obs.fetched
           /\ (~google_sheets_csv_url /\ file.exists) => obs.fileRead

C3_Witness ==
    /\ Called /\ obs.op = "get" /\ obs.pre.dc /= None
    /\ now >= obs.pre.ct + cache_duration
    /\ obs.untouched /\ obs.fileRead /\ obs.out = "return"

\* the local file holds a table that lacks a required column
FileLacksColumns ==
    /\ file.exists /\ file.content \in Tables
    /\ RequiredColumns \ file.content.cols /= {}
\* the remote source answered with a table that lacks a required column
RemoteLacksColumns ==
    /\ obs.fetched /\ obs.resp \in Tables
    /\ RequiredColumns \ obs.resp.cols /= {}
RaisedSchemaError ==
    obs.out = "raise" /\ obs.err = "ValueError" /\ obs.table = None

C5_RemoteFailureFallsBack ==
    (Called /\ RemoteFailed) =>
        LET c == Entry
            l == LocalPath(c.dc, c.ct, c.lm, Unwritten, NothingDone) IN
        /\ obs.out = l.out /\ obs.err = l.err /\ obs.table = l.table
        /\ obs.source /= "remote"
        /\ obs.out = "raise" => (obs.fileRead /\ file.exists)

C5_Witness ==
    /\ Called /\ obs.op = "get" /\ RemoteFailed
    /\ obs.resp \in RemoteFailures /\ obs.resp.err = "Timeout"
    /\ obs.out = "return" /\ obs.source = "local" /\ obs.table /= EmptyDF

\* C6: with a remote URL configured, the cached table is returned without
\* a fetch exactly when a cached table exists that is younger than
\* cache_duration, whatever the state of the local file; in every other
\* case the remote source is fetched, and before the file is read.
C6_RemoteCacheByTimeOnly ==
    (Called /\ obs.op = "get" /\ google_sheets_csv_url) =>
        /\ InWindow <=> (ReturnedCache /\ ~obs.fetched)
        /\ ~InWindow => obs.fetched
        /\ obs.fileRead => obs.fetched

C6_Witness ==
    /\ Called /\ obs.op = "get" /\ google_sheets_csv_url
    /\ InWindow /\ ReturnedCache /\ ~file.exists

Filled(x) == x.t /= "nan" /\ (x.t = "str" => Strip(x.v) /= <<>>)
\* the trimmed text of a filled cell
Trimmed(x) == IF x.t = "str" THEN Strip(x.v) ELSE <<DigitOf(x.v)>>
\* the rows of raw whose Question and Answer are both filled
Kept == {i \in 1..Len(raw.rows) :
            Filled(raw.rows[i]["Question"]) /\ Filled(raw.rows[i]["Answer"])}

\* C8 as stated: a load never raises because of its rows, and the table it
\* yields holds, in their order, exactly the rows of the source whose
\* Question and Answer are non-empty after trimming.
C8_Original ==
    loaded /= None =>
        /\ loaded.ok
        /\ Len(loaded.df.rows) = Cardinality(Kept)
        /\ \A j \in 1..Len(loaded.df.rows) :
              /\ loaded.df.rows[j].Question /= <<>>
              /\ loaded.df.rows[j].Answer /= <<>>
        /\ \A i \in Kept :
              LET j == Cardinality({k \in Kept : k <= i}) IN
              /\ loaded.df.rows[j].Question = Trimmed(raw.rows[i]["Question"])
              /\ loaded.df.rows[j].Answer = Trimmed(raw.rows[i]["Answer"])

\* C9 as stated: in every state the three cache fields are all absent or
\* describe one load; no load replaces data_cache and cache_time and leaves
\* in last_modified the value that an earlier load wrote.  (A load that has
\* no modification time to record may leave last_modified absent.)
C9_Original ==
    \/ CacheAbsent
    \/ /\ data_cache /= None /\ cache_time /= NoTime
       /\ written.data = "latest" /\ written.time = "latest"
       /\ written.mod /= "earlier"
       /\ written.mod = "none" <=> last_modified = NoTime

\* C10: refresh_cache() always attempts a load, and when it is over the
\* cache is absent or holds the result of a load made during the call.
C10_RefreshReloads ==
    (Called /\ obs.op = "refresh") =>
        /\ obs.source /= "cache"
        /\ google_sheets_csv_url => obs.fetched
        /\ (~google_sheets_csv_url /\ file.exists) => obs.fileRead
        /\ \/ CacheAbsent
           \/ /\ obs.wrote /\ data_cache = obs.table /\ cache_time = now
              /\ last_modified \in {NoTime, file.mtime}
              /\ written.mod /= "earlier"

C10_Witness ==
    /\ Called /\ obs.op = "refresh" /\ InWindow /\ obs.untouched
    /\ obs.wrote /\ data_cache = obs.table

\* the table holds the row r as the cleaning leaves it
HasRow(t, r) ==
    \E i \in 1..Len(t.rows) :
        /\ t.rows[i].Question = Strip(r["Question"].v)
        /\ t.rows[i].Answer = Strip(r["Answer"].v)
AfterAppend == Called /\ obs.op = "get" /\ obs.pending /= None

C12_OneWriterInFlight ==
    /\ Cardinality(loop.inflight) <= 1
    /\ ~loop.interleaved

\* the second handler invocation is inside a store operation that has
\* written all three fields, while the server thread is serving a request
C12_Witness ==
    /\ loop.handler /= NoTask /\ loop.handler.id = 2
    /\ loop.inflight = {2}
    /\ loop.handler.todo = <<"leave", "await">>
    /\ loop.writer = [w_data |-> 2, w_time |-> 2, w_mod |-> 2]
    /\ loop.server = <<"write">>

\* C19: normalizing a normalized query changes nothing.
C19_CleanIdempotent == sim.calls = 2 => sim.twice = sim.once

C19_Witness ==
    /\ sim.calls = 2 /\ sim.q = <<"\t", "A", "?">>
    /\ sim.once = <<"a">> /\ sim.twice = <<"a">>

\* the normalized forms hold the same tokens in a different order
Reordered(a, b) ==
    LET ta == Split(CleanText(a))
        tb == Split(CleanText(b))
    IN  ta /= <<>> /\ ta /= tb /\ Sorted(ta) = Sorted(tb)

\* C20 as stated: the score of (a, b) equals the score of (b, a), and it
\* is 100 when the normalized forms hold the same tokens in another order.
C20_Original ==
    sim.calls = 2 =>
        /\ sim.ab = sim.ba
        /\ Reordered(sim.a, sim.b) => sim.ab = 100

\* the score process.extract gives the question text against the query
ScoreOf(text) ==
    TokenSortRatio(FullProcess(FullProcess(CleanQuestion(match.user_question).v)),
                   FullProcess(text), FALSE, match.backend)
\* the first row of the table with the question text
FirstRow(text) ==
    match.kb.rows[CHOOSE i \in 1..Len(match.kb.rows) :
                      /\ match.kb.rows[i].Question = text
                      /\ \A j \in 1..(i - 1) : match.kb.rows[j].Question /= text]
\* the table holds exactly two rows with one question text, priorities 2
\* and 7 in either order, and the text reaches the threshold
TwoDuplicates ==
    /\ Len(match.kb.rows) = 2
    /\ match.kb.rows[1].Question = match.kb.rows[2].Question
    /\ {match.kb.rows[1].Priority, match.kb.rows[2].Priority} = {2, 7}
    /\ ScoreOf(match.kb.rows[1].Question) >= match.similarity_threshold

\* C13 as stated: with two rows of identical question text and priorities
\* 2 and 7, in either order, both reaching the threshold at the same
\* score, get_best_match returns the row whose priority is 2.
C13_Original ==
    (match.call = "get_best_match" /\ TwoDuplicates) =>
        (match.out.v /= None /\ match.out.v.priority = 2)

\* C14: every match returned by find_matches carries the answer, category
\* and priority of the first row of the table whose Question equals the
\* matched text, never those of a later duplicate.
C14_FirstRowWins ==
    match.call = "find_matches" =>
        \A k \in 1..Len(match.out.v) :
            LET m == match.out.v[k]
                row == FirstRow(m.question)
            IN  /\ m.answer = row.Answer
                /\ m.category = row.Category
                /\ m.priority = row.Priority

C14_Witness ==
    /\ match.call = "find_matches" /\ Len(match.kb.rows) = 3
    /\ match.kb.rows[1].Question = match.kb.rows[3].Question
    /\ match.kb.rows[2].Question /= match.kb.rows[1].Question
    /\ match.kb.rows[1].Priority = 7 /\ match.kb.rows[3].Priority = 2
    /\ Len(match.out.v) = 2
    /\ match.out.v[1].answer = AnswerAt(1) /\ match.out.v[2].answer = AnswerAt(1)

\* C15: find_matches returns at most max_results matches, each with a
\* score of at least similarity_threshold.
C15_BoundedAndAboveThreshold ==
    match.call = "find_matches" =>
        /\ Len(match.out.v) <= match.max_results
        /\ \A k \in 1..Len(match.out.v) :
               match.out.v[k].score >= match.similarity_threshold

\* more rows reach the threshold than max_results allows, and one row
\* stays below it
C15_Witness ==
    /\ match.call = "find_matches" /\ match.max_results = 1
    /\ Len(match.kb.rows) = 3
    /\ ScoreOf(match.kb.rows[1].Question) < match.similarity_threshold
    /\ ScoreOf(match.kb.rows[2].Question) >= match.similarity_threshold
    /\ ScoreOf(match.kb.rows[3].Question) >= match.similarity_threshold
    /\ Len(match.out.v) = 1

\* C16: the list returned by find_matches is sorted, scores non-increasing
\* and, among adjacent matches of equal score, priorities non-decreasing.
C16_Sorted ==
    match.call = "find_matches" =>
        \A k \in 1..(Len(match.out.v) - 1) :
            LET x == match.out.v[k]
                y == match.out.v[k + 1]
            IN  /\ x.score >= y.score
                /\ x.score = y.score => x.priority <= y.priority

\* two rows of different text and equal score are returned in the order of
\* their priorities, not of the table
C16_Witness ==
    /\ match.call = "find_matches" /\ Len(match.kb.rows) = 2
    /\ match.kb.rows[1].Priority = 7 /\ match.kb.rows[2].Priority = 2
    /\ Len(match.out.v) = 2
    /\ match.out.v[1].score = match.out.v[2].score
    /\ match.out.v[1].answer = AnswerAt(2) /\ match.out.v[2].answer = AnswerAt(1)

\* what the body of the call made raises, if it raises
BodyOutcome ==
    CASE match.call \in {"find_matches", "get_best_match"} ->
            FindMatchesBody(match.user_question, match.kb, match.max_results,
                            match.similarity_threshold, match.backend)
      [] match.call = "search_by_category" ->
            SearchByCategoryBody(match.user_question, match.kb, match.other,
                                 match.max_results, match.similarity_threshold,
                                 match.backend)
      [] match.call = "get_similarity_score" ->
            SimilarityScore(match.user_question, match.other, match.backend)
\* what the call returns in place of a failure
OnFailure ==
    CASE match.call \in {"find_matches", "search_by_category"} -> Return(<<>>)
      [] match.call = "get_best_match" -> Return(None)
      [] match.call = "get_similarity_score" -> Return(0)

\* C17: find_matches, get_best_match, search_by_category and
\* get_similarity_score never raise; when their body fails they return an
\* empty list, None and 0 respectively.
C17_NeverRaises ==
    match.call /= "none" =>
        /\ match.out.out = "return"
        /\ BodyOutcome.out = "raise" => match.out = OnFailure

\* a table without the Question column, asked a proper question
C17_Witness ==
    /\ match.call = "get_best_match"
    /\ match.kb /= None /\ match.kb.cols = ColNames \ {"Question"}
    /\ match.kb.rows /= <<>>
    /\ match.user_question = PyStr(<<"a">>)
    /\ BodyOutcome = Raise("KeyError")
    /\ match.out = Return(None)

\* the query is empty once cleaned
CleansToNothing == CleanQuestion(match.user_question) = Return(<<>>)

\* C18: a query that is empty, whitespace-only or otherwise normalizes to
\* the empty string makes find_matches return [] and get_best_match None,
\* for every table.
C18_EmptyQueryNoMatch ==
    /\ (match.call = "find_matches" /\ CleansToNothing) => match.out = Return(<<>>)
    /\ (match.call = "get_best_match" /\ CleansToNothing) => match.out = Return(None)

\* a question of punctuation only, asked of a table that holds the same
\* text as a question
C18_Witness ==
    /\ match.call = "get_best_match"
    /\ match.user_question = PyStr(<<"?">>)
    /\ match.kb /= None /\ match.kb.cols = ColNames
    /\ match.kb.rows /= <<>> /\ match.kb.rows[1].Question = <<"?">>
    /\ match.out = Return(None)

\* C21: log_unanswered_question adds one record to the log when the
\* question has at least three whitespace-separated tokens and the write
\* succeeds, adds nothing when it has fewer, and never raises, whether or
\* not the write fails.
C21_LogsLongQuestions ==
    LET c == unanswered.call IN
    c.out /= "none" =>
        /\ c.out = "return"
        /\ c.io \in {"fails", "write torn"} => c.caught
        /\ Len(Split(c.question)) < 3 => unanswered.file = c.before
        /\ (Len(Split(c.question)) >= 3 /\ c.io = "written") =>
               /\ Len(unanswered.file) = Len(c.before) + 1
               /\ SubSeq(unanswered.file, 1, Len(c.before)) = c.before
               /\ unanswered.file[Len(unanswered.file)].question = c.question
               /\ unanswered.file[Len(unanswered.file)].whole

\* a two-word question has left the log of one record as it was, after a
\* three-word question was written to it
C21_Witness ==
    /\ unanswered.call.out = "return"
    /\ unanswered.call.question = <<"a", "\t", "a", " ">>
    /\ Len(unanswered.file) = 1
    /\ unanswered.file[1].question = <<"a", " ", "a", "\t", "a">>
    /\ unanswered.file = unanswered.call.before

\* the highest score of any row of the table
TopScore ==
    CHOOSE x \in {ScoreOf(match.kb.rows[i].Question) : i \in 1..Len(match.kb.rows)} :
        \A i \in 1..Len(match.kb.rows) : ScoreOf(match.kb.rows[i].Question) <= x

\* C22 as stated: the first element of a non-empty result of find_matches
\* has the highest score of any row of the table and, among all rows of
\* that score, the lowest priority number, whatever the size of the table.
C22_Original ==
    (match.call = "find_matches" /\ match.out.v /= <<>>) =>
        /\ match.out.v[1].score = TopScore
        /\ \A i \in 1..Len(match.kb.rows) :
               ScoreOf(match.kb.rows[i].Question) = TopScore =>
                   match.out.v[1].priority <= match.kb.rows[i].Priority

\* the call raised, or returned an empty table because the local file is
\* absent or holds no rows
FailedOrEmptyLoad ==
    \/ obs.out = "raise"
    \/ /\ obs.out = "return" /\ obs.table = EmptyDF /\ OnLocalPath
       /\ obs.source /= "cache"
       /\ (~file.exists \/ (obs.fileRead /\ Len(file.content.rows) = 0))

\* C23: a get_knowledge_base() call that raises, or that returns an empty
\* table because the local file is missing or has no rows, leaves
\* data_cache, cache_time and last_modified as they were when it began.
C23_FailedLoadKeepsCache ==
    (Called /\ FailedOrEmptyLoad) =>
        /\ data_cache = Entry.dc
        /\ cache_time = Entry.ct
        /\ last_modified = Entry.lm

\* the file is gone and the cache has expired: the call returns an empty
\* table and the table cached before is still there
C23_Witness ==
    /\ Called /\ obs.op = "get" /\ FailedOrEmptyLoad
    /\ ~file.exists /\ obs.out = "return"
    /\ obs.pre.dc /= None /\ ~InWindow
    /\ data_cache = obs.pre.dc /\ cache_time = obs.pre.ct

====
